---------------------------- MODULE Spec2Model ----------------------------
(***************************************************************************)
(* The incremental markdown attribute engine of                            *)
(* cffi/tabula/rendering/_cairopango.csrc.c: the MarkdownState scan cursor,*)
(* the marker scanner markdown_attrs, the backspace reconciler             *)
(* markdown_attrs_backspace / backspace_filter, the cursor and compose     *)
(* overlays and simplify_attr_list.                                        *)
(*                                                                         *)
(* Representation.                                                         *)
(*  - A GString is [str |-> address of the storage, bytes |-> its UTF-8    *)
(*    bytes]; string->len is Len(bytes) and the terminating NUL sits at    *)
(*    position Len(bytes) + 1.                                             *)
(*  - A gchar* into the buffer is the 1-based position of the byte it      *)
(*    points to, relative to the storage it was computed from; NULL is 0.  *)
(*    So "p - string->str" is p - 1.                                       *)
(*  - A PangoAttribute is [addr, type, start_index, end_index]; addr is    *)
(*    its heap address, which is what state->bold, state->italic,          *)
(*    state->cursor_alpha and state->compose_underline hold.               *)
(*  - A PangoAttrList is the sequence of its attributes, in list order.    *)
(***************************************************************************)
EXTENDS Integers, Sequences, FiniteSets, TLC

(***************************************************************************)
(* Bounds of the model.                                                    *)
(***************************************************************************)
\* bytes in the buffer, specification Spec (all operations)
MaxLen == 3
\* bytes in the buffer, specification SpecEdit (typing and backspace only)
MaxEditLen == 6
\* bytes in the buffer, specification SpecSimplify
MaxSimplifyLen == 2
\* snapshots kept for the round trip (the k of "k appends, k retracts")
MaxRound == 2
\* attributes in a list handed to simplify_attr_list, SpecSimplifier
MaxSimpLen == 3
\* bytes in the buffer, specification SpecScan (append, extend, retract)
MaxScanLen == 5
\* bytes in the buffer, specification SpecTriple (runs of asterisks)
MaxTripleLen == 7
\* bytes in the buffer, specification SpecFrame (typing, backspace, compose)
MaxFrameLen == 4
\* bytes in the buffer, specification SpecMisuse
MaxMisuseLen == 3

(***************************************************************************)
(* Program constants.                                                      *)
(***************************************************************************)
ASTERISK == 42
UNDERSCORE == 95
NULL == 0
\* PANGO_ATTR_INDEX_TO_TEXT_END is G_MAXUINT.  TLC's integers are 32-bit
\* signed, so guint is modelled as 0 .. 2^31 - 1; the code only compares
\* indices, adds one to them and decrements "last".
G_MAXUINT == 2147483647
PANGO_ATTR_INDEX_TO_TEXT_END == G_MAXUINT

PANGO_ATTR_STYLE == "STYLE"
PANGO_ATTR_WEIGHT == "WEIGHT"
PANGO_ATTR_FOREGROUND_ALPHA == "FOREGROUND_ALPHA"
PANGO_ATTR_UNDERLINE == "UNDERLINE"

\* The codepoints the host types: the two markers, an ASCII letter and a
\* two-byte letter (U+00E9).
Codepoints == {UNDERSCORE, ASTERISK, 97, 233}
\* Addresses g_realloc may hand out for the GString storage.
StrAddrs == {1, 2}

\* state and string are the program's MarkdownState and GString.  The others
\* record what the host has done and seen: shown (what it saw before
\* show_cursor, while the cursor is shown), snaps (what it saw before each
\* keystroke not yet retracted), retracted (a retract has been called),
\* lastOp (the last operation), before (what it saw before the retract just
\* made), simp (a list handed to simplify_attr_list and what came back).
VARIABLES state, string, shown, snaps, retracted, lastOp, before, simp

vars == <<state, string, shown, snaps, retracted, lastOp, before, simp>>

Range(s) == {s[i] : i \in 1..Len(s)}

(***************************************************************************)
(* guint arithmetic.                                                       *)
(***************************************************************************)
\* "last--" on a guint: 0 wraps to G_MAXUINT
guint_dec(n) == IF n = 0 THEN G_MAXUINT ELSE n - 1

(***************************************************************************)
(* GLib UTF-8 primitives, on a byte sequence and 1-based byte positions.   *)
(***************************************************************************)
\* *p, the NUL terminator included
ByteAt(bytes, p) == IF p >= 1 /\ p <= Len(bytes) THEN bytes[p] ELSE 0

\* g_unichar_to_utf8
g_unichar_to_utf8(c) ==
    IF c < 128 THEN <<c>>
    ELSE IF c < 2048 THEN <<192 + (c \div 64), 128 + (c % 64)>>
    ELSE <<224 + (c \div 4096), 128 + ((c \div 64) % 64), 128 + (c % 64)>>

\* g_utf8_skip[b]
g_utf8_skip(b) ==
    IF b < 192 THEN 1 ELSE IF b < 224 THEN 2 ELSE IF b < 240 THEN 3 ELSE 4

\* g_utf8_get_char(p)
g_utf8_get_char(bytes, p) ==
    LET b0 == ByteAt(bytes, p)
        b1 == ByteAt(bytes, p + 1)
        b2 == ByteAt(bytes, p + 2)
    IN  IF b0 < 128 THEN b0
        ELSE IF b0 < 224 THEN (b0 - 192) * 64 + (b1 % 64)
        ELSE (b0 - 224) * 4096 + (b1 % 64) * 64 + (b2 % 64)

\* g_utf8_next_char(p)
g_utf8_next_char(bytes, p) == p + g_utf8_skip(ByteAt(bytes, p))

\* a continuation byte: (b & 0xc0) == 0x80
IsContinuation(b) == b >= 128 /\ b < 192

\* g_utf8_find_prev_char(str, p): the start of the character before p, NULL
\* when p is at the start of the string
RECURSIVE PrevCharFrom(_, _)
PrevCharFrom(bytes, q) ==
    IF q < 1 THEN NULL
    ELSE IF ~IsContinuation(ByteAt(bytes, q)) THEN q
    ELSE PrevCharFrom(bytes, q - 1)

g_utf8_find_prev_char(bytes, p) == PrevCharFrom(bytes, p - 1)

\* g_utf8_offset_to_pointer(str, offset): skip offset characters
RECURSIVE g_utf8_offset_to_pointer(_, _)
g_utf8_offset_to_pointer(bytes, offset) ==
    IF offset = 0 THEN 1
    ELSE g_utf8_next_char(bytes, g_utf8_offset_to_pointer(bytes, offset - 1))

\* g_utf8_pointer_to_offset(str, p): the characters between str and p
RECURSIVE CharsBetween(_, _, _)
CharsBetween(bytes, q, p) ==
    IF q >= p THEN 0 ELSE 1 + CharsBetween(bytes, g_utf8_next_char(bytes, q), p)

g_utf8_pointer_to_offset(bytes, p) == CharsBetween(bytes, 1, p)

\* g_string_append_unichar: the storage may move (g_realloc)
g_string_append_unichar(gs, c, addr) ==
    [str |-> addr, bytes |-> gs.bytes \o g_unichar_to_utf8(c)]

\* g_string_truncate(string, len): len is clamped to string->len; the storage
\* does not move
g_string_truncate(gs, len) ==
    [gs EXCEPT !.bytes = SubSeq(gs.bytes, 1, IF len < Len(gs.bytes) THEN len ELSE Len(gs.bytes))]

(***************************************************************************)
(* Pango attribute lists.                                                  *)
(***************************************************************************)
\* pango_attribute_init: a new attribute spans the whole text
pango_attribute_new(addr, type) ==
    [addr |-> addr, type |-> type, start_index |-> 0,
     end_index |-> PANGO_ATTR_INDEX_TO_TEXT_END]

\* pango_attr_list_insert: after every attribute whose start_index is not
\* larger than the new one's
RECURSIVE InsertAt(_, _, _)
InsertAt(list, attr, i) ==
    IF i > Len(list) THEN Append(list, attr)
    ELSE IF list[i].start_index > attr.start_index
         THEN SubSeq(list, 1, i - 1) \o <<attr>> \o SubSeq(list, i, Len(list))
         ELSE InsertAt(list, attr, i + 1)

pango_attr_list_insert(list, attr) ==
    IF Len(list) = 0 \/ list[Len(list)].start_index <= attr.start_index
    THEN Append(list, attr)
    ELSE InsertAt(list, attr, 1)

\* the attribute at an address, through a pointer: a write through a pointer
\* whose attribute has been freed lands on whatever attribute has been
\* allocated at that address since, or on none
WriteBounds(list, addr, start, end) ==
    IF Len(list) = 0 THEN <<>> ELSE
    [i \in 1..Len(list) |->
        IF list[i].addr = addr
        THEN [list[i] EXCEPT !.start_index = start, !.end_index = end]
        ELSE list[i]]

WriteEnd(list, addr, end) ==
    IF Len(list) = 0 THEN <<>> ELSE
    [i \in 1..Len(list) |->
        IF list[i].addr = addr THEN [list[i] EXCEPT !.end_index = end] ELSE list[i]]

Live(list) == {list[i].addr : i \in 1..Len(list)}

\* The addresses the allocator may return for a new attribute: an address
\* never handed out that is still unused, or the address of a freed
\* attribute.  Freed addresses nobody points to are interchangeable with
\* unused ones; only those state->cursor_alpha or state->compose_underline
\* still hold are told apart.
NewAddrs(st) ==
    LET held == {st.cursor_alpha, st.compose_underline}
        used == Live(st.attr_list) \cup held
        fresh == CHOOSE n \in 1..(Cardinality(used) + 1) :
                    /\ n \notin used
                    /\ \A m \in 1..(n - 1) : m \in used
    IN  {fresh} \cup (held \ Live(st.attr_list))

RemoveAt(list, i) == SubSeq(list, 1, i - 1) \o SubSeq(list, i + 1, Len(list))

(***************************************************************************)
(* simplify_attr_list.                                                     *)
(***************************************************************************)
\* mutant: also removes the attributes whose end lies before their start
simplify_list_filter_ge(attribute) == attribute.start_index >= attribute.end_index

\* simplify_list_filter: TRUE (remove) for an empty range
simplify_list_filter(attribute) == attribute.start_index = attribute.end_index

\* pango_attr_list_filter(list, simplify_list_filter, NULL): walks the list by
\* index; an attribute the filter accepts is taken out of the list (and the
\* index stays), the others stay in place
RECURSIVE SimplifyFrom(_, _)
SimplifyFrom(list, i) ==
    IF i > Len(list) THEN list
    ELSE IF simplify_list_filter(list[i])
         THEN SimplifyFrom(RemoveAt(list, i), i)
         ELSE SimplifyFrom(list, i + 1)

\* simplify_attr_list: filters the list in place and frees what was removed
simplify_attr_list(list) == SimplifyFrom(list, 1)

(***************************************************************************)
(* MarkdownState.                                                          *)
(***************************************************************************)
\* markdown_state_new: cursor_alpha is allocated first, compose_underline
\* second; compose_underline is inserted first
markdown_state_new(gs) ==
    LET cursor == [pango_attribute_new(1, PANGO_ATTR_FOREGROUND_ALPHA)
                      EXCEPT !.start_index = 0, !.end_index = 0]
        compose == [pango_attribute_new(2, PANGO_ATTR_UNDERLINE)
                      EXCEPT !.start_index = 0, !.end_index = 0]
    IN  [pos |-> 0,
         attr_list |-> pango_attr_list_insert(pango_attr_list_insert(<<>>, compose), cursor),
         bold |-> NULL,
         italic |-> NULL,
         cursor_alpha |-> cursor.addr,
         compose_underline |-> compose.addr,
         cached_start |-> gs.str,
         pos_p |-> 1,
         prev_pos_p |-> NULL]

\* mutant: when the storage moved, the previous-character pointer is dropped
\* instead of recomputed
markdown_state_housekeeping_noprev(st, gs) ==
    IF st.cached_start # gs.str
    THEN LET p == g_utf8_offset_to_pointer(gs.bytes, st.pos)
         IN  [st EXCEPT !.pos_p = p,
                        !.prev_pos_p = NULL,
                        !.cached_start = gs.str]
    ELSE st

\* markdown_state_housekeeping: when the storage moved, recompute the cached
\* pointers from pos
markdown_state_housekeeping(st, gs) ==
    IF st.cached_start # gs.str
    THEN LET p == g_utf8_offset_to_pointer(gs.bytes, st.pos)
         IN  [st EXCEPT !.pos_p = p,
                        !.prev_pos_p = g_utf8_find_prev_char(gs.bytes, p),
                        !.cached_start = gs.str]
    ELSE st

\* mutant: the new italic attribute is not remembered in state->italic
ScanUnderscore_noref(st, addr) ==
    IF st.italic = NULL
    THEN LET italic == [pango_attribute_new(addr, PANGO_ATTR_STYLE)
                          EXCEPT !.start_index = st.pos_p - 1]
         IN  [st EXCEPT !.attr_list = pango_attr_list_insert(st.attr_list, italic)]
    ELSE [st EXCEPT !.attr_list = WriteEnd(st.attr_list, st.italic, (st.pos_p - 1) + 1),
                    !.italic = NULL]

\* markdown_attrs, lines 165-179: an underscore opens an italic attribute at
\* its own byte offset, or closes the open one just after itself
ScanUnderscore(st, addr) ==
    IF st.italic = NULL
    THEN LET italic == [pango_attribute_new(addr, PANGO_ATTR_STYLE)
                          EXCEPT !.start_index = st.pos_p - 1]
         IN  [st EXCEPT !.italic = addr,
                        !.attr_list = pango_attr_list_insert(st.attr_list, italic)]
    ELSE [st EXCEPT !.attr_list = WriteEnd(st.attr_list, st.italic, (st.pos_p - 1) + 1),
                    !.italic = NULL]

\* mutant: the bold attribute starts at the second asterisk
ScanAsterisk_late(st, gs, addr) ==
    LET prev == IF st.prev_pos_p # NULL
                THEN g_utf8_get_char(gs.bytes, st.prev_pos_p) ELSE 0
    IN  IF prev # ASTERISK THEN st
        ELSE IF st.bold = NULL
        THEN LET bold == [pango_attribute_new(addr, PANGO_ATTR_WEIGHT)
                            EXCEPT !.start_index = st.pos_p - 1]
             IN  [st EXCEPT !.bold = addr,
                            !.attr_list = pango_attr_list_insert(st.attr_list, bold)]
        ELSE [st EXCEPT !.attr_list = WriteEnd(st.attr_list, st.bold, (st.pos_p - 1) + 1),
                        !.bold = NULL]

\* markdown_attrs, lines 180-203: an asterisk right after an asterisk opens a
\* bold attribute at the previous position, or closes the open one
ScanAsterisk(st, gs, addr) ==
    LET prev == IF st.prev_pos_p # NULL
                THEN g_utf8_get_char(gs.bytes, st.prev_pos_p) ELSE 0
    IN  IF prev # ASTERISK THEN st
        ELSE IF st.bold = NULL
        THEN LET bold == [pango_attribute_new(addr, PANGO_ATTR_WEIGHT)
                            EXCEPT !.start_index = st.prev_pos_p - 1]
             IN  [st EXCEPT !.bold = addr,
                            !.attr_list = pango_attr_list_insert(st.attr_list, bold)]
        ELSE [st EXCEPT !.attr_list = WriteEnd(st.attr_list, st.bold, (st.pos_p - 1) + 1),
                        !.bold = NULL]

\* one round of the while loop of markdown_attrs; addr is the address the
\* allocator returns if the round creates an attribute
ScanStep(st, gs, addr) ==
    LET current == g_utf8_get_char(gs.bytes, st.pos_p)
        s1 == IF current = UNDERSCORE THEN ScanUnderscore(st, addr)
              ELSE IF current = ASTERISK THEN ScanAsterisk(st, gs, addr)
              ELSE st
    IN  [s1 EXCEPT !.pos = st.pos + 1,
                   !.prev_pos_p = st.pos_p,
                   !.pos_p = g_utf8_next_char(gs.bytes, st.pos_p)]

\* the while loop of markdown_attrs: the set of states it can end in
RECURSIVE ScanLoop(_, _)
ScanLoop(st, gs) ==
    IF g_utf8_get_char(gs.bytes, st.pos_p) = 0 THEN {st}
    ELSE UNION {ScanLoop(ScanStep(st, gs, addr), gs) : addr \in NewAddrs(st)}

\* markdown_attrs
markdown_attrs(st, gs) ==
    IF ~(st.pos <= Len(gs.bytes)) THEN {st}
    ELSE LET s1 == markdown_state_housekeeping(st, gs)
         IN  IF Len(gs.bytes) = 0 THEN {s1} ELSE ScanLoop(s1, gs)

\* mutant: a reopened italic attribute is not made state->italic
backspace_filter_noref(attribute, st) ==
    LET last0 == st.pos_p - 1
        toggled == attribute.type \in {PANGO_ATTR_STYLE, PANGO_ATTR_WEIGHT}
        last == IF attribute.type = PANGO_ATTR_WEIGHT THEN guint_dec(last0) ELSE last0
        reopen == toggled /\ attribute.end_index >= last
        remove == toggled /\ attribute.start_index >= last
        bold1 == IF reopen /\ attribute.type = PANGO_ATTR_WEIGHT
                 THEN attribute.addr ELSE st.bold
        italic1 == st.italic
    IN  [attribute |-> IF reopen
                       THEN [attribute EXCEPT !.end_index = PANGO_ATTR_INDEX_TO_TEXT_END]
                       ELSE attribute,
         bold |-> IF remove /\ attribute.addr = bold1 THEN NULL ELSE bold1,
         italic |-> IF remove /\ attribute.addr = italic1 THEN NULL ELSE italic1,
         remove |-> remove]

\* mutant: state->bold and state->italic are not cleared when the attribute
\* they point to is removed
backspace_filter_noclear(attribute, st) ==
    LET last0 == st.pos_p - 1
        toggled == attribute.type \in {PANGO_ATTR_STYLE, PANGO_ATTR_WEIGHT}
        last == IF attribute.type = PANGO_ATTR_WEIGHT THEN guint_dec(last0) ELSE last0
        reopen == toggled /\ attribute.end_index >= last
        remove == toggled /\ attribute.start_index >= last
        bold1 == IF reopen /\ attribute.type = PANGO_ATTR_WEIGHT
                 THEN attribute.addr ELSE st.bold
        italic1 == IF reopen /\ attribute.type = PANGO_ATTR_STYLE
                   THEN attribute.addr ELSE st.italic
    IN  [attribute |-> IF reopen
                       THEN [attribute EXCEPT !.end_index = PANGO_ATTR_INDEX_TO_TEXT_END]
                       ELSE attribute,
         bold |-> bold1,
         italic |-> italic1,
         remove |-> remove]

\* mutant: attributes of every type are reopened and removed, the two overlay
\* attributes included
backspace_filter_alltypes(attribute, st) ==
    LET last0 == st.pos_p - 1
        last == IF attribute.type = PANGO_ATTR_WEIGHT THEN guint_dec(last0) ELSE last0
        reopen == attribute.end_index >= last
        remove == attribute.start_index >= last
        bold1 == IF reopen /\ attribute.type = PANGO_ATTR_WEIGHT
                 THEN attribute.addr ELSE st.bold
        italic1 == IF reopen /\ attribute.type = PANGO_ATTR_STYLE
                   THEN attribute.addr ELSE st.italic
    IN  [attribute |-> IF reopen
                       THEN [attribute EXCEPT !.end_index = PANGO_ATTR_INDEX_TO_TEXT_END]
                       ELSE attribute,
         bold |-> IF remove /\ attribute.addr = bold1 THEN NULL ELSE bold1,
         italic |-> IF remove /\ attribute.addr = italic1 THEN NULL ELSE italic1,
         remove |-> remove]

\* mutant: last is not decremented for a weight attribute
backspace_filter_nodec(attribute, st) ==
    LET last == st.pos_p - 1
        toggled == attribute.type \in {PANGO_ATTR_STYLE, PANGO_ATTR_WEIGHT}
        reopen == toggled /\ attribute.end_index >= last
        remove == toggled /\ attribute.start_index >= last
        bold1 == IF reopen /\ attribute.type = PANGO_ATTR_WEIGHT
                 THEN attribute.addr ELSE st.bold
        italic1 == IF reopen /\ attribute.type = PANGO_ATTR_STYLE
                   THEN attribute.addr ELSE st.italic
    IN  [attribute |-> IF reopen
                       THEN [attribute EXCEPT !.end_index = PANGO_ATTR_INDEX_TO_TEXT_END]
                       ELSE attribute,
         bold |-> IF remove /\ attribute.addr = bold1 THEN NULL ELSE bold1,
         italic |-> IF remove /\ attribute.addr = italic1 THEN NULL ELSE italic1,
         remove |-> remove]

\* backspace_filter on one attribute: the attribute as it leaves the call,
\* state->bold and state->italic as it leaves them, and its return value
backspace_filter(attribute, st) ==
    LET last0 == st.pos_p - 1
        toggled == attribute.type \in {PANGO_ATTR_STYLE, PANGO_ATTR_WEIGHT}
        last == IF attribute.type = PANGO_ATTR_WEIGHT THEN guint_dec(last0) ELSE last0
        reopen == toggled /\ attribute.end_index >= last
        remove == toggled /\ attribute.start_index >= last
        bold1 == IF reopen /\ attribute.type = PANGO_ATTR_WEIGHT
                 THEN attribute.addr ELSE st.bold
        italic1 == IF reopen /\ attribute.type = PANGO_ATTR_STYLE
                   THEN attribute.addr ELSE st.italic
    IN  [attribute |-> IF reopen
                       THEN [attribute EXCEPT !.end_index = PANGO_ATTR_INDEX_TO_TEXT_END]
                       ELSE attribute,
         bold |-> IF remove /\ attribute.addr = bold1 THEN NULL ELSE bold1,
         italic |-> IF remove /\ attribute.addr = italic1 THEN NULL ELSE italic1,
         remove |-> remove]

\* pango_attr_list_filter(state->attr_list, backspace_filter, state), the
\* removed attributes freed
RECURSIVE BackspaceFrom(_, _)
BackspaceFrom(st, i) ==
    IF i > Len(st.attr_list) THEN st
    ELSE LET r == backspace_filter(st.attr_list[i], st)
             s1 == [st EXCEPT !.bold = r.bold, !.italic = r.italic]
         IN  IF r.remove
             THEN BackspaceFrom([s1 EXCEPT !.attr_list = RemoveAt(st.attr_list, i)], i)
             ELSE BackspaceFrom([s1 EXCEPT !.attr_list[i] = r.attribute], i + 1)

\* mutant: the string loses its last byte instead of being cut at pos_p
markdown_attrs_backspace_last(st, gs) ==
    LET s1 == markdown_state_housekeeping(st, gs)
    IN  IF s1.prev_pos_p = NULL THEN [state |-> s1, string |-> gs]
        ELSE LET pos == g_utf8_pointer_to_offset(gs.bytes, s1.prev_pos_p)
                 pos_p == g_utf8_offset_to_pointer(gs.bytes, pos)
                 s2 == [s1 EXCEPT !.pos = pos,
                                  !.pos_p = pos_p,
                                  !.prev_pos_p = g_utf8_find_prev_char(gs.bytes, pos_p)]
             IN  [state |-> BackspaceFrom(s2, 1),
                  string |-> g_string_truncate(gs, Len(gs.bytes) - 1)]

\* mutant: no early return when there is no previous character
markdown_attrs_backspace_nocheck(st, gs) ==
    LET s1 == markdown_state_housekeeping(st, gs)
        pos == g_utf8_pointer_to_offset(gs.bytes, s1.prev_pos_p)
        pos_p == g_utf8_offset_to_pointer(gs.bytes, pos)
        s2 == [s1 EXCEPT !.pos = pos,
                         !.pos_p = pos_p,
                         !.prev_pos_p = g_utf8_find_prev_char(gs.bytes, pos_p)]
    IN  [state |-> BackspaceFrom(s2, 1),
         string |-> g_string_truncate(gs, pos_p - 1)]

\* markdown_attrs_backspace: the state and the string it leaves
markdown_attrs_backspace(st, gs) ==
    LET s1 == markdown_state_housekeeping(st, gs)
    IN  IF s1.prev_pos_p = NULL THEN [state |-> s1, string |-> gs]
        ELSE LET pos == g_utf8_pointer_to_offset(gs.bytes, s1.prev_pos_p)
                 pos_p == g_utf8_offset_to_pointer(gs.bytes, pos)
                 s2 == [s1 EXCEPT !.pos = pos,
                                  !.pos_p = pos_p,
                                  !.prev_pos_p = g_utf8_find_prev_char(gs.bytes, pos_p)]
             IN  [state |-> BackspaceFrom(s2, 1),
                  string |-> g_string_truncate(gs, pos_p - 1)]

\* mutant: the cursor attribute is given its bounds after the cursor codepoint
\* has been appended
setup_cursor_after(st, gs, addr) ==
    [state |-> [st EXCEPT !.attr_list =
                    WriteBounds(st.attr_list, st.cursor_alpha,
                                Len(gs.bytes) + 1, Len(gs.bytes) + 2)],
     string |-> g_string_append_unichar(gs, UNDERSCORE, addr)]

\* setup_cursor
setup_cursor(st, gs, addr) ==
    [state |-> [st EXCEPT !.attr_list =
                    WriteBounds(st.attr_list, st.cursor_alpha, Len(gs.bytes), Len(gs.bytes) + 1)],
     string |-> g_string_append_unichar(gs, UNDERSCORE, addr)]

\* mutant: the cursor codepoint is left in the buffer
cleanup_cursor_keep(st, gs) ==
    [state |-> [st EXCEPT !.attr_list = WriteBounds(st.attr_list, st.cursor_alpha, 0, 0)],
     string |-> gs]

\* cleanup_cursor: string->len - 1 is a gsize, so 0 - 1 is the largest gsize
\* and g_string_truncate clamps it to string->len
cleanup_cursor(st, gs) ==
    [state |-> [st EXCEPT !.attr_list = WriteBounds(st.attr_list, st.cursor_alpha, 0, 0)],
     string |-> g_string_truncate(gs, IF Len(gs.bytes) = 0 THEN G_MAXUINT ELSE Len(gs.bytes) - 1)]

\* setup_compose
setup_compose(st, start, end) ==
    [st EXCEPT !.attr_list = WriteBounds(st.attr_list, st.compose_underline, start, end)]

\* cleanup_compose
cleanup_compose(st) ==
    [st EXCEPT !.attr_list = WriteBounds(st.attr_list, st.compose_underline, 0, 0)]

(***************************************************************************)
(* What the host observes.                                                 *)
(***************************************************************************)
Span(a) == <<a.type, a.start_index, a.end_index>>

\* the Span List as a set of kind/start/end triples
SpanSet(list) == {Span(list[i]) : i \in 1..Len(list)}

\* the span a pointer refers to: empty for NULL and for a dangling pointer
Deref(list, p) == {Span(list[i]) : i \in {j \in 1..Len(list) : list[j].addr = p}}

AttrsOf(list, type) == {list[i] : i \in {j \in 1..Len(list) : list[j].type = type}}

\* buffer content, Span List and Open-Toggle State
View(st, gs) ==
    [bytes |-> gs.bytes,
     spans |-> SpanSet(st.attr_list),
     open_bold |-> Deref(st.attr_list, st.bold),
     open_italic |-> Deref(st.attr_list, st.italic)]

\* everything but the CursorHighlight span
ViewButCursor(st, gs) ==
    [bytes |-> gs.bytes,
     pos |-> st.pos,
     bold |-> st.bold,
     italic |-> st.italic,
     others |-> SelectSeq(st.attr_list, LAMBDA a : a.type # PANGO_ATTR_FOREGROUND_ALPHA)]

\* the last MaxRound snapshots
Push(stack, v) ==
    IF Len(stack) < MaxRound THEN <<v>> \o stack
    ELSE <<v>> \o SubSeq(stack, 1, MaxRound - 1)

NoSimp == [in |-> <<>>, first |-> <<>>, out |-> <<>>, n |-> 0]

(***************************************************************************)
(* The state after construction: an engine on an empty buffer.             *)
(***************************************************************************)
Init ==
    /\ string = [str |-> 1, bytes |-> <<>>]
    /\ state = markdown_state_new(string)
    /\ shown = <<>>
    /\ snaps = <<>>
    /\ retracted = FALSE
    /\ lastOp = "new"
    /\ before = <<>>
    /\ simp = NoSimp

(***************************************************************************)
(* The host's operations.  shown holds what the host saw before            *)
(* show_cursor while the cursor is shown: the host calls nothing but       *)
(* hide_cursor until it is hidden.                                         *)
(***************************************************************************)
\* g_string_append_unichar by the host, not scanned yet; max bounds the
\* buffer
AppendWithin(c, max) ==
    /\ shown = <<>>
    /\ Len(string.bytes) + Len(g_unichar_to_utf8(c)) <= max
    /\ \E addr \in StrAddrs : string' = g_string_append_unichar(string, c, addr)
    /\ snaps' = <<>>
    /\ lastOp' = "append"
    /\ before' = <<>>
    /\ UNCHANGED <<state, shown, retracted, simp>>

AppendChar(c) == AppendWithin(c, MaxLen)

\* extend: markdown_attrs
Extend ==
    /\ shown = <<>>
    /\ state' \in markdown_attrs(state, string)
    /\ snaps' = <<>>
    /\ lastOp' = "extend"
    /\ before' = <<>>
    /\ UNCHANGED <<string, shown, retracted, simp>>

\* one keystroke: the host appends a codepoint and calls markdown_attrs; max
\* bounds the buffer
TypeWithin(c, max) ==
    /\ shown = <<>>
    /\ Len(string.bytes) + Len(g_unichar_to_utf8(c)) <= max
    /\ \E addr \in StrAddrs :
          /\ string' = g_string_append_unichar(string, c, addr)
          /\ state' \in markdown_attrs(state, string')
    /\ snaps' = Push(snaps, View(state, string))
    /\ lastOp' = "type"
    /\ before' = <<>>
    /\ UNCHANGED <<shown, retracted, simp>>

TypeChar(c) == TypeWithin(c, MaxEditLen)

\* retract: markdown_attrs_backspace
Retract ==
    /\ shown = <<>>
    /\ LET r == markdown_attrs_backspace(state, string)
       IN  /\ state' = r.state
           /\ string' = r.string
    /\ snaps' = IF snaps = <<>> THEN <<>> ELSE Tail(snaps)
    /\ retracted' = TRUE
    /\ lastOp' = "retract"
    /\ before' = <<[view |-> View(state, string), pos |-> state.pos]>>
    /\ UNCHANGED <<shown, simp>>

\* show_cursor: setup_cursor
ShowCursor ==
    /\ shown = <<>>
    /\ \E addr \in StrAddrs :
          LET r == setup_cursor(state, string, addr)
          IN  /\ state' = r.state
              /\ string' = r.string
    /\ shown' = <<ViewButCursor(state, string)>>
    /\ snaps' = <<>>
    /\ lastOp' = "show_cursor"
    /\ before' = <<>>
    /\ UNCHANGED <<retracted, simp>>

\* hide_cursor: cleanup_cursor
HideCursor ==
    /\ shown # <<>>
    /\ LET r == cleanup_cursor(state, string)
       IN  /\ state' = r.state
           /\ string' = r.string
    /\ shown' = <<>>
    /\ lastOp' = "hide_cursor"
    /\ before' = <<>>
    /\ UNCHANGED <<snaps, retracted, simp>>

\* show_compose(start, end): setup_compose with offsets inside the buffer
ShowCompose(start, end) ==
    /\ shown = <<>>
    /\ start <= end
    /\ end <= Len(string.bytes)
    /\ state' = setup_compose(state, start, end)
    /\ snaps' = <<>>
    /\ lastOp' = "show_compose"
    /\ before' = <<>>
    /\ UNCHANGED <<string, shown, retracted, simp>>

\* hide_compose: cleanup_compose
HideCompose ==
    /\ shown = <<>>
    /\ state' = cleanup_compose(state)
    /\ snaps' = <<>>
    /\ lastOp' = "hide_compose"
    /\ before' = <<>>
    /\ UNCHANGED <<string, shown, retracted, simp>>

\* simplify_attr_list on the engine's own attribute list
SimplifyEngine ==
    /\ shown = <<>>
    /\ state' = [state EXCEPT !.attr_list = simplify_attr_list(state.attr_list)]
    /\ snaps' = <<>>
    /\ lastOp' = "simplify"
    /\ before' = <<>>
    /\ UNCHANGED <<string, shown, retracted, simp>>

(***************************************************************************)
(* Calls the contract forbids.  They are made only while the scan cursor   *)
(* is inside the buffer, the host's own truncation only while the cached   *)
(* pointers are current, and the host appends nothing while the cursor is  *)
(* outside.  Behind the terminating NUL the engine then reads only bytes   *)
(* that were a terminating NUL before, which g_string_truncate leaves in   *)
(* the storage: ByteAt gives 0 there, as the storage does.  A lead byte    *)
(* left without its continuation byte is decoded by g_utf8_get_char to     *)
(* some codepoint that is neither 0 nor a marker, here as in GLib.         *)
(***************************************************************************)
\* the byte position of the scan cursor is inside the buffer
CursorInBuffer ==
    g_utf8_offset_to_pointer(string.bytes, state.pos) <= Len(string.bytes) + 1

\* g_string_append_unichar by the host while the scan cursor is inside the
\* buffer
AppendInBuffer(c) ==
    /\ CursorInBuffer
    /\ AppendWithin(c, MaxMisuseLen)

\* the host shortens the buffer by its last codepoint with g_string_truncate
\* and does not call markdown_attrs_backspace
HostTruncate ==
    /\ shown = <<>>
    /\ CursorInBuffer
    /\ state.cached_start = string.str
    /\ Len(string.bytes) > 0
    /\ string' = g_string_truncate(string,
                     g_utf8_find_prev_char(string.bytes, Len(string.bytes) + 1) - 1)
    /\ snaps' = <<>>
    /\ lastOp' = "truncate"
    /\ before' = <<>>
    /\ UNCHANGED <<state, shown, retracted, simp>>

\* hide_cursor with no show_cursor before it: cleanup_cursor
HideCursorUnmatched ==
    /\ shown = <<>>
    /\ CursorInBuffer
    /\ LET r == cleanup_cursor(state, string)
       IN  /\ state' = r.state
           /\ string' = r.string
    /\ snaps' = <<>>
    /\ lastOp' = "hide_cursor_unmatched"
    /\ before' = <<>>
    /\ UNCHANGED <<shown, retracted, simp>>

(***************************************************************************)
(* Specifications.                                                         *)
(***************************************************************************)
\* every operation of the engine, the cursor overlay bracketed
Next ==
    \/ \E c \in Codepoints : AppendChar(c)
    \/ Extend
    \/ Retract
    \/ ShowCursor
    \/ HideCursor
    \/ \E start \in 0..MaxLen, end \in 0..MaxLen : ShowCompose(start, end)
    \/ HideCompose

Spec == Init /\ [][Next]_vars

\* typing (append, then scan) and backspace
NextEdit ==
    \/ \E c \in Codepoints : TypeChar(c)
    \/ Retract

SpecEdit == Init /\ [][NextEdit]_vars

\* every operation, and simplify_attr_list applied to the engine's list
NextSimplify ==
    \/ \E c \in Codepoints : AppendWithin(c, MaxSimplifyLen)
    \/ Extend
    \/ Retract
    \/ ShowCursor
    \/ HideCursor
    \/ \E start \in 0..MaxSimplifyLen, end \in 0..MaxSimplifyLen : ShowCompose(start, end)
    \/ HideCompose
    \/ SimplifyEngine

SpecSimplify == Init /\ [][NextSimplify]_vars

\* simplify_attr_list as a function of an arbitrary attribute list: the
\* attributes of a list have distinct addresses, any type and any bounds
SimpAttrs ==
    [type : {PANGO_ATTR_STYLE, PANGO_ATTR_FOREGROUND_ALPHA},
     start_index : {0, 1},
     end_index : {0, 1, PANGO_ATTR_INDEX_TO_TEXT_END}]

SimpLists ==
    UNION {{[i \in 1..n |-> [addr |-> i, type |-> f[i].type,
                             start_index |-> f[i].start_index,
                             end_index |-> f[i].end_index]] :
                f \in [1..n -> SimpAttrs]} : n \in 1..MaxSimpLen}

InitSimplifier ==
    /\ string = [str |-> 1, bytes |-> <<>>]
    /\ state = markdown_state_new(string)
    /\ shown = <<>>
    /\ snaps = <<>>
    /\ retracted = FALSE
    /\ lastOp = "new"
    /\ before = <<>>
    /\ \E l \in SimpLists : simp = [in |-> l, first |-> l, out |-> l, n |-> 0]

\* simplify_attr_list(list), applied once and then once more
SimplifyList ==
    /\ simp.n < 2
    /\ simp' = [in |-> simp.in,
                first |-> IF simp.n = 0 THEN simplify_attr_list(simp.out) ELSE simp.first,
                out |-> simplify_attr_list(simp.out),
                n |-> simp.n + 1]
    /\ UNCHANGED <<state, string, shown, snaps, retracted, lastOp, before>>

NextSimplifier == SimplifyList

SpecSimplifier == InitSimplifier /\ [][NextSimplifier]_vars

\* append, extend and retract in any order: text may wait unscanned
NextScan ==
    \/ \E c \in Codepoints : AppendWithin(c, MaxScanLen)
    \/ Extend
    \/ Retract

SpecScan == Init /\ [][NextScan]_vars

\* asterisks and letters appended and scanned, in one go or in pieces
TripleCodepoints == {ASTERISK, 97, 233}

NextTriple ==
    \/ \E c \in TripleCodepoints : AppendWithin(c, MaxTripleLen)
    \/ Extend

SpecTriple == Init /\ [][NextTriple]_vars

\* typing and backspace with the compose overlay shown, over the tail of
\* the buffer, and hidden
NextFrame ==
    \/ \E c \in Codepoints : TypeWithin(c, MaxFrameLen)
    \/ Retract
    \/ \E start \in 0..MaxFrameLen : ShowCompose(start, Len(string.bytes))
    \/ HideCompose

SpecFrame == Init /\ [][NextFrame]_vars

\* append, extend and retract, with the two calls the contract forbids
NextMisuse ==
    \/ \E c \in Codepoints : AppendInBuffer(c)
    \/ Extend
    \/ Retract
    \/ HostTruncate
    \/ HideCursorUnmatched

SpecMisuse == Init /\ [][NextMisuse]_vars

(***************************************************************************)
(* Shorthands of the claims.                                               *)
(***************************************************************************)
len == Len(string.bytes)
attrs == state.attr_list
Italics == AttrsOf(attrs, PANGO_ATTR_STYLE)
Bolds == AttrsOf(attrs, PANGO_ATTR_WEIGHT)
Unbounded == PANGO_ATTR_INDEX_TO_TEXT_END
\* everything appended has been scanned
Scanned == state.pos_p = len + 1 /\ state.cached_start = string.str

(***************************************************************************)
(* C1.  Round trip: k keystrokes (append, then extend) followed by k       *)
(* retracts leave the buffer content, the Span List (as a set of           *)
(* kind/start/end triples) and open_bold / open_italic as they were before *)
(* the k keystrokes.  snaps holds the states seen before the keystrokes    *)
(* not yet retracted, the latest first.                                    *)
(***************************************************************************)
C1_RoundTrip ==
    [][(lastOp' = "retract" /\ snaps # <<>>)
          => View(state', string') = Head(snaps)]_vars

(***************************************************************************)
(* C2.  Marker pairing: on a fresh engine (nothing retracted), the text    *)
(* '_' w '_' gives exactly one Italic span, [0, len), with open_italic     *)
(* none; the text '**' w '**' gives exactly one Bold span, [0, len), with  *)
(* open_bold none; w is a non-empty run of non-marker codepoints, and no   *)
(* other Bold or Italic span exists.                                       *)
(***************************************************************************)
NoMarkerIn(bytes, lo, hi) ==
    \A i \in lo..hi : bytes[i] # UNDERSCORE /\ bytes[i] # ASTERISK

IsItalicPair(bytes) ==
    /\ Len(bytes) >= 3
    /\ bytes[1] = UNDERSCORE
    /\ bytes[Len(bytes)] = UNDERSCORE
    /\ NoMarkerIn(bytes, 2, Len(bytes) - 1)

IsBoldPair(bytes) ==
    /\ Len(bytes) >= 5
    /\ bytes[1] = ASTERISK /\ bytes[2] = ASTERISK
    /\ bytes[Len(bytes) - 1] = ASTERISK /\ bytes[Len(bytes)] = ASTERISK
    /\ NoMarkerIn(bytes, 3, Len(bytes) - 2)

C2_MarkerPairing ==
    (~retracted /\ Scanned) =>
        /\ IsItalicPair(string.bytes) =>
              /\ {Span(a) : a \in Italics} = {<<PANGO_ATTR_STYLE, 0, len>>}
              /\ Cardinality(Italics) = 1
              /\ state.italic = NULL
              /\ Bolds = {}
        /\ IsBoldPair(string.bytes) =>
              /\ {Span(a) : a \in Bolds} = {<<PANGO_ATTR_WEIGHT, 0, len>>}
              /\ Cardinality(Bolds) = 1
              /\ state.bold = NULL
              /\ Italics = {}

\* '**' w '**' has been typed on a fresh engine, w holding a two-byte letter
C2_Witness ==
    /\ ~retracted
    /\ lastOp = "type"
    /\ string.bytes = <<ASTERISK, ASTERISK, 195, 169, ASTERISK, ASTERISK>>

\* '_' w '_' has been typed on a fresh engine
C2_WitnessItalic ==
    /\ ~retracted
    /\ lastOp = "type"
    /\ IsItalicPair(string.bytes)
    /\ len = MaxEditLen

(***************************************************************************)
(* C3.  Backspace closing a span: when the buffer ends with the closing    *)
(* '_' of a closed Italic span [s, e), e the buffer length, one retract    *)
(* makes that span Unbounded again with start s, makes open_italic refer   *)
(* to it, leaves exactly one Italic span starting at s, and reopens no     *)
(* other closed Italic span.                                               *)
(***************************************************************************)
ClosedAtEnd(a) ==
    /\ a.type = PANGO_ATTR_STYLE
    /\ a.end_index # Unbounded
    /\ a.end_index = len
    /\ ByteAt(string.bytes, len) = UNDERSCORE
    /\ Scanned

C3_BackspaceReopens ==
    [][lastOp' = "retract" =>
        \A a \in Italics : ClosedAtEnd(a) =>
            /\ [a EXCEPT !.end_index = Unbounded] \in Italics'
            /\ state'.italic = a.addr
            /\ Cardinality({b \in Italics' : b.start_index = a.start_index}) = 1
            /\ \A b \in Italics :
                  (b # a /\ b.end_index # Unbounded) => b \in Italics']_vars

\* a retract has just removed the closing '_' of '_' w '_', w three bytes
\* long, and open_italic refers to the reopened span
C3_Witness ==
    /\ lastOp = "retract"
    /\ before # <<>>
    /\ IsItalicPair(Head(before).view.bytes)
    /\ <<PANGO_ATTR_STYLE, 0, 5>> \in Head(before).view.spans
    /\ Head(before).view.open_italic = {}
    /\ len = 4
    /\ Deref(attrs, state.italic) = {<<PANGO_ATTR_STYLE, 0, Unbounded>>}

(***************************************************************************)
(* C4.  Backspace mid-span: with an open Italic span (Unbounded, referred  *)
(* to by open_italic) whose opening '_' is at offset s, a retract that     *)
(* leaves the buffer longer than s keeps the span, with start s and end    *)
(* Unbounded, and keeps open_italic referring to it; the retract that      *)
(* removes the opening '_' removes the span and sets open_italic to none.  *)
(***************************************************************************)
C4_BackspaceMidSpan ==
    [][lastOp' = "retract" =>
        \A a \in Italics :
            (a.end_index = Unbounded /\ state.italic = a.addr /\ Scanned) =>
                IF len' > a.start_index
                THEN a \in Italics' /\ state'.italic = a.addr
                ELSE a.addr \notin Live(attrs') /\ state'.italic = NULL]_vars

(***************************************************************************)
(* C5.  Unterminated marker: on a fresh engine (nothing retracted), after  *)
(* '_' followed by any run of codepoints other than '_', open_italic       *)
(* refers to an Italic span that starts at the '_' and is Unbounded, and   *)
(* no Italic span has a concrete end.                                      *)
(***************************************************************************)
IsUnterminated(bytes) ==
    /\ Len(bytes) >= 1
    /\ bytes[1] = UNDERSCORE
    /\ \A i \in 2..Len(bytes) : bytes[i] # UNDERSCORE

C5_Unterminated ==
    (~retracted /\ Scanned /\ IsUnterminated(string.bytes)) =>
        /\ state.italic # NULL
        /\ Deref(attrs, state.italic) = {<<PANGO_ATTR_STYLE, 0, Unbounded>>}
        /\ \A a \in Italics : a.end_index = Unbounded

\* '_' and a run holding asterisks and a letter have been typed
C5_Witness ==
    /\ ~retracted
    /\ lastOp = "type"
    /\ IsUnterminated(string.bytes)
    /\ len >= 4
    /\ \E i \in 2..len : string.bytes[i] = ASTERISK

(***************************************************************************)
(* C6.  Reserved overlay spans are permanent: the Span List always holds   *)
(* exactly one CursorHighlight and exactly one ComposeUnderline span, and  *)
(* state->cursor_alpha and state->compose_underline point to them.         *)
(***************************************************************************)
CountOf(type) == Cardinality({i \in 1..Len(attrs) : attrs[i].type = type})

C6_OverlaysPermanent ==
    /\ CountOf(PANGO_ATTR_FOREGROUND_ALPHA) = 1
    /\ CountOf(PANGO_ATTR_UNDERLINE) = 1
    /\ \E a \in AttrsOf(attrs, PANGO_ATTR_FOREGROUND_ALPHA) : a.addr = state.cursor_alpha
    /\ \E a \in AttrsOf(attrs, PANGO_ATTR_UNDERLINE) : a.addr = state.compose_underline

(***************************************************************************)
(* C7.  Overlay independence: show_cursor sets CursorHighlight to          *)
(* [L, L+1), L the buffer length before, and makes the buffer one byte     *)
(* longer; the hide_cursor that follows leaves the buffer content, the     *)
(* Scan Cursor offset, open_bold / open_italic and every span but          *)
(* CursorHighlight as they were before show_cursor, and CursorHighlight    *)
(* at [0, 0).                                                              *)
(***************************************************************************)
CursorSpans == {Span(a) : a \in AttrsOf(attrs, PANGO_ATTR_FOREGROUND_ALPHA)}

C7_OverlayIndependence ==
    [][/\ lastOp' = "show_cursor" =>
            /\ CursorSpans' = {<<PANGO_ATTR_FOREGROUND_ALPHA, len, len + 1>>}
            /\ len' = len + 1
            /\ shown' = <<ViewButCursor(state, string)>>
       /\ lastOp' = "hide_cursor" =>
            /\ shown # <<>>
            /\ <<ViewButCursor(state', string')>> = shown
            /\ CursorSpans' = {<<PANGO_ATTR_FOREGROUND_ALPHA, 0, 0>>}]_vars

\* the cursor has been shown and hidden on a buffer with an open italic span
\* and unscanned text
C7_Witness ==
    /\ lastOp = "hide_cursor"
    /\ state.italic # NULL
    /\ state.pos_p < len + 1

(***************************************************************************)
(* C8.  No dangling open reference: open_bold (open_italic), when not      *)
(* none, refers to a Bold (Italic) span that is in the Span List.          *)
(***************************************************************************)
C8_NoDangling ==
    /\ state.bold # NULL => \E a \in Bolds : a.addr = state.bold
    /\ state.italic # NULL => \E a \in Italics : a.addr = state.italic

\* a retract has just removed the Bold span open_bold referred to
C8_Witness ==
    /\ lastOp = "retract"
    /\ before # <<>>
    /\ Head(before).view.open_bold # {}
    /\ Bolds = {}
    /\ state.bold = NULL

(***************************************************************************)
(* C9.  Scan Cursor bound.                                                 *)
(***************************************************************************)
\* bytes less its last codepoint
ButLast(bytes) == SubSeq(bytes, 1, g_utf8_find_prev_char(bytes, Len(bytes) + 1) - 1)

\* C9 as claimed: the Scan Cursor offset is at most the buffer length; right
\* after a retract (the cursor not at buffer start) the offset equals the new
\* buffer length, and the buffer is one codepoint shorter than before.
C9_Original ==
    [][/\ state'.pos <= len'
       /\ (lastOp' = "retract" /\ state.pos > 0) =>
            /\ state'.pos = len'
            /\ string'.bytes = ButLast(string.bytes)]_vars

\* C9 as amended: the Scan Cursor offset, a count of codepoints, is at most
\* the buffer length; right after a retract (the cursor not at buffer start)
\* the buffer is what had been scanned less its last codepoint, the offset is
\* one less than before and is the number of codepoints of the new buffer,
\* and the cursor's byte position is the new buffer length.
C9_ScanCursorBound ==
    [][/\ state'.pos <= len'
       /\ (lastOp' = "retract" /\ state.pos > 0) =>
            LET scanned == SubSeq(string.bytes, 1,
                                  g_utf8_offset_to_pointer(string.bytes, state.pos) - 1)
            IN  /\ string'.bytes = ButLast(scanned)
                /\ state'.pos = state.pos - 1
                /\ state'.pos = g_utf8_pointer_to_offset(string'.bytes, len' + 1)
                /\ state'.pos_p - 1 = len']_vars

\* a retract has removed a scanned two-byte codepoint and the unscanned
\* codepoint behind it
C9_Witness ==
    /\ lastOp = "retract"
    /\ before # <<>>
    /\ Head(before).pos = 1
    /\ Head(before).view.bytes = <<195, 169, 97>>
    /\ state.pos = 0
    /\ len = 0

(***************************************************************************)
(* C10.  Simplifier: simplify keeps exactly the attributes of its input    *)
(* whose start and end differ, each unchanged, and removes the others;     *)
(* simplifying the result again changes nothing.  simp.in is the list      *)
(* simplify was given, simp.first what the first call left, simp.out what  *)
(* the latest call left.                                                   *)
(***************************************************************************)
C10_Simplifier ==
    simp.n >= 1 =>
        /\ Range(simp.out) = {a \in Range(simp.in) : a.start_index # a.end_index}
        /\ Len(simp.out) = Cardinality(Range(simp.out))
        /\ simp.n = 2 => simp.out = simp.first

\* a list with two adjacent empty attributes and another attribute has been
\* simplified twice
C10_Witness ==
    /\ simp.n = 2
    /\ Len(simp.in) = 3
    /\ simp.in[1].start_index = simp.in[1].end_index
    /\ simp.in[2].start_index = simp.in[2].end_index
    /\ Len(simp.out) = 1

(***************************************************************************)
(* C11.  Triple markers.                                                   *)
(***************************************************************************)
\* '***' x '***', x one codepoint that is not a marker
IsTriple(bytes) ==
    /\ Len(bytes) >= 7
    /\ \A i \in 1..3 : bytes[i] = ASTERISK
    /\ \A i \in (Len(bytes) - 2)..Len(bytes) : bytes[i] = ASTERISK
    /\ NoMarkerIn(bytes, 4, Len(bytes) - 3)
    /\ g_utf8_next_char(bytes, 4) = Len(bytes) - 2

BoldSpans == {Span(a) : a \in Bolds}

\* C11 as claimed: on a fresh engine, '***' x '***' appended and scanned
\* gives exactly one Bold span, from the first asterisk to the last, no
\* Italic span, and open_bold none.
C11_Original ==
    (~retracted /\ Scanned /\ IsTriple(string.bytes)) =>
        /\ BoldSpans = {<<PANGO_ATTR_WEIGHT, 0, len>>}
        /\ Cardinality(Bolds) = 1
        /\ Italics = {}
        /\ state.bold = NULL

\* C11 as amended: on a fresh engine, '***' x '***' appended and scanned
\* gives exactly two Bold spans, [0, 3) over the leading asterisks and
\* [len - 3, len) over the trailing ones, no Italic span, and open_bold none.
C11_TripleMarkers ==
    (~retracted /\ Scanned /\ IsTriple(string.bytes)) =>
        /\ BoldSpans = {<<PANGO_ATTR_WEIGHT, 0, 3>>, <<PANGO_ATTR_WEIGHT, len - 3, len>>}
        /\ Cardinality(Bolds) = 2
        /\ Italics = {}
        /\ state.bold = NULL

\* '***a***' has been appended to a fresh engine and scanned to its end
C11_Witness ==
    /\ ~retracted
    /\ lastOp = "extend"
    /\ Scanned
    /\ string.bytes = <<ASTERISK, ASTERISK, ASTERISK, 97, ASTERISK, ASTERISK, ASTERISK>>

(***************************************************************************)
(* C12.  InvalidPositionError: an extend or a retract that starts with the *)
(* Scan Cursor offset greater than the buffer length aborts: it leaves the *)
(* buffer, the Span List, open_bold / open_italic and the Scan Cursor      *)
(* offset as they were.                                                    *)
(***************************************************************************)
C12_InvalidPosition ==
    [][(state.pos > len /\ lastOp' \in {"extend", "retract"}) =>
          /\ string'.bytes = string.bytes
          /\ attrs' = attrs
          /\ state'.bold = state.bold
          /\ state'.italic = state.italic
          /\ state'.pos = state.pos]_vars

\* the same, of extend alone
C12_ExtendAborts ==
    [][(state.pos > len /\ lastOp' = "extend") => state' = state /\ string' = string]_vars

(***************************************************************************)
(* C13.  Stale overlay: a hide_cursor with no show_cursor before it        *)
(* removes no codepoint of the user's text from the buffer and does not    *)
(* leave the Scan Cursor offset greater than the buffer length.            *)
(***************************************************************************)
C13_StaleOverlay ==
    [][lastOp' = "hide_cursor_unmatched" =>
          /\ string'.bytes = string.bytes
          /\ state'.pos <= len']_vars

(***************************************************************************)
(* C14.  Empty retraction: a retract with the Scan Cursor at buffer start  *)
(* (offset 0: a fresh engine, everything retracted, or nothing scanned     *)
(* yet) leaves the buffer, the Span List, open_bold / open_italic and the  *)
(* Scan Cursor offset as they were; so does an extend on an empty buffer.  *)
(***************************************************************************)
C14_EmptyRetraction ==
    [][((lastOp' = "retract" /\ state.pos = 0) \/ (lastOp' = "extend" /\ len = 0)) =>
          /\ string'.bytes = string.bytes
          /\ attrs' = attrs
          /\ state'.bold = state.bold
          /\ state'.italic = state.italic
          /\ state'.pos = state.pos]_vars

\* a retract has been called with the cursor at buffer start, on a buffer
\* holding text not scanned yet
C14_Witness ==
    /\ lastOp = "retract"
    /\ before # <<>>
    /\ Head(before).pos = 0
    /\ Head(before).view.bytes = string.bytes
    /\ len >= 2
    /\ state.pos = 0

(***************************************************************************)
(* C15.  Retract frame: a retract leaves the CursorHighlight and the       *)
(* ComposeUnderline attributes as they were; it leaves in the Span List,   *)
(* with its kind, start and end, every Bold / Italic span whose start and  *)
(* concrete end are both below the cutoff (the new buffer length, one less *)
(* for Bold); and open_bold / open_italic changes only to a span that was  *)
(* reopened (end at or above the cutoff) or, the span it referred to being *)
(* removed (start at or above the cutoff), to none.                        *)
(***************************************************************************)
\* the cutoff of a retract step for spans of a kind
Cutoff(type) == IF type = PANGO_ATTR_WEIGHT THEN len' - 1 ELSE len'

\* an open reference of a retract step: old before, new after, among the
\* spans of its kind
RefFrame(old, new, spans) ==
    \/ new = old
    \/ \E a \in spans : a.addr = new /\ a.end_index >= Cutoff(a.type)
    \/ new = NULL /\ \E a \in spans : a.addr = old /\ a.start_index >= Cutoff(a.type)

C15_RetractFrame ==
    [][lastOp' = "retract" =>
          /\ AttrsOf(attrs', PANGO_ATTR_FOREGROUND_ALPHA) = AttrsOf(attrs, PANGO_ATTR_FOREGROUND_ALPHA)
          /\ AttrsOf(attrs', PANGO_ATTR_UNDERLINE) = AttrsOf(attrs, PANGO_ATTR_UNDERLINE)
          /\ Len(attrs') = Cardinality(Range(attrs'))
          /\ \A a \in Bolds \cup Italics :
                (/\ a.start_index < Cutoff(a.type)
                 /\ a.end_index # Unbounded
                 /\ a.end_index < Cutoff(a.type)) => a \in Bolds' \cup Italics'
          /\ RefFrame(state.bold, state'.bold, Bolds)
          /\ RefFrame(state.italic, state'.italic, Italics)]_vars

\* a retract has left alone a closed Italic span that ends below the new
\* buffer length, and a ComposeUnderline span that is shown
C15_Witness ==
    /\ lastOp = "retract"
    /\ before # <<>>
    /\ Len(Head(before).view.bytes) = 4
    /\ <<PANGO_ATTR_STYLE, 0, 2>> \in Head(before).view.spans
    /\ <<PANGO_ATTR_UNDERLINE, 1, 3>> \in Head(before).view.spans
    /\ len = 3
    /\ <<PANGO_ATTR_STYLE, 0, 2>> \in SpanSet(attrs)
    /\ <<PANGO_ATTR_UNDERLINE, 1, 3>> \in SpanSet(attrs)

(***************************************************************************)
(* C16.  Offsets stay inside the buffer.                                   *)
(***************************************************************************)
InsideBuffer(a) ==
    /\ a.start_index <= len
    /\ a.end_index # Unbounded => a.end_index <= len

\* C16 as claimed: the start of every span of the Span List, and the end of
\* every span whose end is not Unbounded, the overlay spans included, is at
\* most the buffer length.
C16_Original == \A a \in Range(attrs) : InsideBuffer(a)

\* C16 as amended: the start of every Bold, Italic and CursorHighlight span,
\* and its end when not Unbounded, is at most the buffer length; the
\* ComposeUnderline span is not bound by it.
C16_OffsetsInside ==
    \A a \in Range(attrs) : a.type # PANGO_ATTR_UNDERLINE => InsideBuffer(a)

\* the cursor is shown after retracts that left the ComposeUnderline span
\* ending above the buffer, an Italic span in the list
C16_Witness ==
    /\ retracted
    /\ lastOp = "show_cursor"
    /\ Italics # {}
    /\ \E a \in AttrsOf(attrs, PANGO_ATTR_UNDERLINE) : a.end_index > len

(***************************************************************************)
(* C17.  Incremental scanning equals batch scanning.                       *)
(***************************************************************************)
\* the part of the buffer the scan cursor has passed
ScannedPart == SubSeq(string.bytes, 1, g_utf8_offset_to_pointer(string.bytes, state.pos) - 1)

\* what one markdown_attrs call on a new engine makes of a text
BatchScan(bytes) ==
    LET gs == [str |-> 1, bytes |-> bytes]
    IN  markdown_attrs(markdown_state_new(gs), gs)

\* with nothing retracted, the attribute list, state->bold, state->italic
\* and state->pos are those of one scan of the scanned part of the buffer,
\* however the appends were grouped and wherever the storage moved
SameAsBatch ==
    ~retracted =>
        \A b \in BatchScan(ScannedPart) :
            /\ b.attr_list = attrs
            /\ b.bold = state.bold
            /\ b.italic = state.italic
            /\ b.pos = state.pos

\* C17 as claimed: extend leaves the Scan Cursor offset equal to the buffer
\* length, a second extend with no append in between changes nothing, and
\* the Span List and open_bold / open_italic are those of one scan.
C17_Original ==
    /\ lastOp = "extend" =>
          /\ state.pos = len
          /\ markdown_attrs(state, string) = {state}
    /\ SameAsBatch

\* C17 as amended: extend leaves the scan cursor at the end of the buffer
\* (its byte position is the buffer length, its offset the number of
\* codepoints in the buffer), a second extend with no append in between
\* changes nothing, and the Span List and open_bold / open_italic are those
\* of one scan.
C17_IncrementalIsBatch ==
    /\ lastOp = "extend" =>
          /\ state.pos_p - 1 = len
          /\ state.cached_start = string.str
          /\ state.pos = g_utf8_pointer_to_offset(string.bytes, len + 1)
          /\ markdown_attrs(state, string) = {state}
    /\ SameAsBatch

\* '**', a two-byte letter and '_' have been appended and scanned on a fresh
\* engine whose storage has moved
C17_Witness ==
    /\ ~retracted
    /\ lastOp = "extend"
    /\ Scanned
    /\ string.bytes = <<ASTERISK, ASTERISK, 195, 169, UNDERSCORE>>
    /\ string.str # 1
    /\ Bolds # {}
    /\ Italics # {}

(***************************************************************************)
(* C18.  Open means referenced: a Bold (Italic) span has end Unbounded if  *)
(* and only if it is the span state->bold (state->italic) points to.       *)
(***************************************************************************)
C18_OpenMeansReferenced ==
    /\ \A a \in Bolds : (a.end_index = Unbounded) <=> (a.addr = state.bold)
    /\ \A a \in Italics : (a.end_index = Unbounded) <=> (a.addr = state.italic)

\* a referenced span is Unbounded: the half of C18 that holds
C18_ReferencedIsOpen ==
    /\ \A a \in Bolds : (a.addr = state.bold) => (a.end_index = Unbounded)
    /\ \A a \in Italics : (a.addr = state.italic) => (a.end_index = Unbounded)

\* C18 when nothing has been retracted
C18_OpenBeforeRetract == ~retracted => C18_OpenMeansReferenced

(***************************************************************************)
(* C19.  Spans stay anchored on their opening markers: every Italic span   *)
(* starts inside the buffer, on a '_'; every Bold span starts at least two *)
(* bytes before the end of the buffer, on '**'; every Bold and Italic span *)
(* has its start below its end; and a retract that moves the cursor with a *)
(* Bold span in the list leaves a buffer of at least one byte, so that the *)
(* Bold cutoff (the new length less one) does not wrap below zero.         *)
(***************************************************************************)
C19_Anchored ==
    /\ \A a \in Italics :
          /\ a.start_index < len
          /\ string.bytes[a.start_index + 1] = UNDERSCORE
          /\ a.start_index < a.end_index
    /\ \A a \in Bolds :
          /\ a.start_index + 2 <= len
          /\ string.bytes[a.start_index + 1] = ASTERISK
          /\ string.bytes[a.start_index + 2] = ASTERISK
          /\ a.start_index < a.end_index
    /\ (/\ lastOp = "retract"
        /\ before # <<>>
        /\ Head(before).pos > 0
        /\ \E s \in Head(before).view.spans : s[1] = PANGO_ATTR_WEIGHT) =>
          /\ len >= 1
          /\ state.pos_p - 1 = len

\* a retract has removed the asterisk that closed the Bold span of '***' and
\* the span is still in the list
C19_Witness ==
    /\ lastOp = "retract"
    /\ before # <<>>
    /\ <<PANGO_ATTR_WEIGHT, 0, 3>> \in Head(before).view.spans
    /\ len = 2
    /\ Bolds # {}

(***************************************************************************)
(* C20.  Single-level, non-nested spans: any two distinct Bold spans cover *)
(* disjoint byte ranges, and so do any two distinct Italic spans, an       *)
(* Unbounded end counted as the buffer length.                             *)
(***************************************************************************)
EndOf(a) == IF a.end_index = Unbounded THEN len ELSE a.end_index

Disjoint(a, b) == EndOf(a) <= b.start_index \/ EndOf(b) <= a.start_index

PairwiseDisjoint(spans) == \A a \in spans : \A b \in spans : a # b => Disjoint(a, b)

C20_NonNested == PairwiseDisjoint(Bolds) /\ PairwiseDisjoint(Italics)

\* the Italic half of C20
C20_ItalicsDisjoint == PairwiseDisjoint(Italics)

\* the Italic half of C20 when nothing has been retracted
C20_ItalicsBeforeRetract == ~retracted => PairwiseDisjoint(Italics)
=============================================================================
